---- MODULE Spec2Model ----
(***************************************************************************)
(* Model of libpassgen (src/src/lib.rs): the Pool of unique chars (a       *)
(* wrapper of IndexSet<char>), the password sampler and calculate_entropy. *)
(* A char is its code point; a string is a sequence of chars; a Pool is    *)
(* the sequence of the IndexSet's entries in index order (index i of the   *)
(* set is position i+1 of the sequence).                                   *)
(***************************************************************************)
EXTENDS Integers, Sequences, FiniteSets, TLC

VARIABLES pool, old, op, args, ret

vars == <<pool, old, op, args, ret>>

\* ---- bounds ----
NumChars == 3      \* chars are the code points 1..NumChars
MaxParseLen == 3   \* longest string parsed into a pool
MaxStrLen == 2     \* longest string argument of a method of a pool
MaxPwLen == 2      \* longest requested password
MaxCount == 2      \* most passwords requested at once
MaxDraws == 4      \* most chars drawn by one generate_n_passwords call
MaxEntLen == 12    \* largest length passed to calculate_entropy
MaxLog2 == 6       \* pool sizes passed to calculate_entropy: 0 and 2^0..2^MaxLog2

Chars == 1..NumChars
StringsUpTo(m) == UNION {[1..n -> Chars] : n \in 0..m}
Strings == StringsUpTo(MaxStrLen)
ParseStrings == StringsUpTo(MaxParseLen)

PoolSizes == {0} \cup {2 ^ k : k \in 0..MaxLog2}

Range(s) == {s[i] : i \in 1..Len(s)}

\* ---- Option<char> ----
None == [some |-> FALSE, val |-> 0]
Some(c) == [some |-> TRUE, val |-> c]

\* ---- Pool (IndexSet<char>) ----
new == <<>>

len(self) == Len(self)

is_empty(self) == Len(self) = 0

contains(self, ch) == \E i \in 1..Len(self) : self[i] = ch

\* mutants of insert: no uniqueness check; a present char moves to the end;
\* a new char goes to the front
insert_dup(self, ch) == Append(self, ch)

insert_move(self, ch) == SelectSeq(self, LAMBDA c : c # ch) \o <<ch>>

insert_front(self, ch) == IF contains(self, ch) THEN self ELSE <<ch>> \o self

\* IndexSet::insert: an equal entry already present leaves the set as it is,
\* a new entry goes to the end
insert(self, ch) == IF contains(self, ch) THEN self ELSE Append(self, ch)

\* IndexSet::extend / from_iter: insert every item of the iterator in order
RECURSIVE extend(_, _)
extend(self, iter) ==
    IF iter = <<>> THEN self
    ELSE extend(insert(self, Head(iter)), Tail(iter))

from_iter(iter) == extend(new, iter)

\* FromStr: Ok(Pool(s.chars().collect::<IndexSet<char>>()))
from_str(s) == [ok |-> TRUE, pool |-> from_iter(s)]

extend_from_string(self, s) == extend(self, from_iter(s))

\* IndexSet::get_index (0-based)
get(self, index) == IF index < Len(self) THEN Some(self[index + 1]) ELSE None

\* position (1-based) of ch in self, 0 when absent
index_of(self, ch) ==
    IF contains(self, ch) THEN CHOOSE i \in 1..Len(self) : self[i] = ch ELSE 0

\* mutant of swap_remove: closes the gap by shifting
swap_remove_shift(self, ch) ==
    [removed |-> contains(self, ch), pool |-> SelectSeq(self, LAMBDA c : c # ch)]

\* IndexSet::swap_remove: the last entry takes the place of the removed one
swap_remove(self, ch) ==
    LET i == index_of(self, ch)
        n == Len(self)
    IN  IF i = 0 THEN [removed |-> FALSE, pool |-> self]
        ELSE [removed |-> TRUE,
              pool |-> [j \in 1..(n - 1) |-> IF j = i THEN self[n] ELSE self[j]]]

\* mutant of shift_remove: fills the gap with the last entry
shift_remove_swap(self, ch) == swap_remove(self, ch)

\* IndexSet::shift_remove: the entries after the removed one move down by one
shift_remove(self, ch) ==
    LET i == index_of(self, ch)
        n == Len(self)
    IN  IF i = 0 THEN [removed |-> FALSE, pool |-> self]
        ELSE [removed |-> TRUE,
              pool |-> [j \in 1..(n - 1) |-> IF j < i THEN self[j] ELSE self[j + 1]]]

\* mutant of remove_all: removes with shift_remove
remove_all_shift(self, elements) ==
    SelectSeq(self, LAMBDA c : \A i \in 1..Len(elements) : elements[i] # c)

\* elements.chars().for_each(|ch| { self.swap_remove(&ch); })
RECURSIVE remove_all(_, _)
remove_all(self, elements) ==
    IF elements = <<>> THEN self
    ELSE remove_all(swap_remove(self, Head(elements)).pool, Tail(elements))

\* IndexSet::sort: ascending by char (code point)
RECURSIVE sort_set(_)
sort_set(S) ==
    IF S = {} THEN <<>>
    ELSE LET m == CHOOSE x \in S : \A y \in S : x <= y
         IN  <<m>> \o sort_set(S \ {m})

sort(self) == sort_set(Range(self))

\* derived PartialEq of Pool = IndexSet's: same length and subset, any order
pool_eq(a, b) == Len(a) = Len(b) /\ \A i \in 1..Len(a) : contains(b, a[i])

\* ---- f64 (the values calculate_entropy can produce) ----
Fin(v) == [kind |-> "fin", val |-> v]
NegInf == [kind |-> "neg_inf", val |-> 0]
PosInf == [kind |-> "pos_inf", val |-> 0]
NaN == [kind |-> "nan", val |-> 0]

\* usize as f64
as_f64(n) == Fin(n)

RECURSIVE ilog2(_)
ilog2(n) == IF n <= 1 THEN 0 ELSE 1 + ilog2(n \div 2)

\* f64::log2 of a non-negative integer value that is 0 or a power of two:
\* log2(0) = -inf, log2(2^k) = k exactly
log2(x) == IF x.val = 0 THEN NegInf ELSE Fin(ilog2(x.val))

\* mutant of f64_mul: zero times anything is zero
f64_mul_zero(a, b) ==
    IF (a.kind = "fin" /\ a.val = 0) \/ (b.kind = "fin" /\ b.val = 0) THEN Fin(0)
    ELSE IF a.kind = "nan" \/ b.kind = "nan" THEN NaN
    ELSE IF a.kind = "fin" /\ b.kind = "fin" THEN Fin(a.val * b.val)
    ELSE IF (a.kind = "neg_inf" \/ (a.kind = "fin" /\ a.val < 0))
            = (b.kind = "neg_inf" \/ (b.kind = "fin" /\ b.val < 0))
         THEN PosInf ELSE NegInf

\* IEEE-754 multiplication: 0 * inf = NaN, otherwise the signs multiply
f64_mul(a, b) ==
    LET sgn(x) == IF x.kind = "neg_inf" \/ (x.kind = "fin" /\ x.val < 0) THEN -1
                  ELSE IF x.kind = "fin" /\ x.val = 0 THEN 0 ELSE 1
        inf(x) == x.kind \in {"neg_inf", "pos_inf"}
    IN  IF a.kind = "nan" \/ b.kind = "nan" THEN NaN
        ELSE IF inf(a) \/ inf(b)
             THEN IF sgn(a) * sgn(b) = 0 THEN NaN
                  ELSE IF sgn(a) * sgn(b) < 0 THEN NegInf ELSE PosInf
             ELSE Fin(a.val * b.val)

calculate_entropy(length, pool_size) == f64_mul(as_f64(length), log2(as_f64(pool_size)))

\* ---- sampler ----
EmptyPoolMsg == "Pool contains no elements!"

\* mutant of gen_range: the upper bound is included
gen_range_inclusive(low, high) == low..high

\* rng.gen_range(low, high): any value of the half-open range low..high-1
gen_range(low, high) == low..(high - 1)

\* outcome of a call: a panic, or the value returned; draws is the log of the
\* chars drawn from the rng during the call, in draw order
Panicked(m) == [panic |-> TRUE, msg |-> m, val |-> <<>>, draws |-> <<>>]
Returned(v, d) == [panic |-> FALSE, msg |-> "", val |-> v, draws |-> d]

\* Option::unwrap
unwrap(o) == IF o.some THEN Returned(o.val, <<>>)
             ELSE Panicked("called Option::unwrap() on a None value")

\* the set of outcomes of generate_password over all random draws
generate_password(p, length) ==
    IF is_empty(p) THEN {Panicked(EmptyPoolMsg)}
    ELSE { LET ch == [i \in 1..length |-> unwrap(get(p, idx[i]))]
           IN  IF \E i \in 1..length : ch[i].panic
               THEN Panicked(ch[CHOOSE i \in 1..length : ch[i].panic].msg)
               ELSE Returned([i \in 1..length |-> ch[i].val],
                             [i \in 1..length |-> ch[i].val])
           : idx \in [1..length -> gen_range(0, len(p))] }

\* mutant of vec_insert: always inserts at the front
vec_insert_front(vec, index, element) == <<element>> \o vec

\* Vec::insert(index, element)
vec_insert(vec, index, element) ==
    SubSeq(vec, 1, index) \o <<element>> \o SubSeq(vec, index + 1, Len(vec))

\* for n in 0..count { vec.insert(n, generate_password(pool, length)) }
RECURSIVE n_passwords_loop(_, _, _, _, _, _)
n_passwords_loop(p, length, count, n, vec, draws) ==
    IF n >= count THEN {Returned(vec, draws)}
    ELSE UNION { IF pass.panic THEN {pass}
                 ELSE n_passwords_loop(p, length, count, n + 1,
                                       vec_insert(vec, n, pass.val), draws \o pass.draws)
                 : pass \in generate_password(p, length) }

\* mutant of generate_n_passwords: the emptiness assertion is missing
generate_n_passwords_unchecked(p, length, count) ==
    n_passwords_loop(p, length, count, 0, <<>>, <<>>)

generate_n_passwords(p, length, count) ==
    IF is_empty(p) THEN {Panicked(EmptyPoolMsg)}
    ELSE n_passwords_loop(p, length, count, 0, <<>>, <<>>)

\* ---- return value of the last operation ----
NoRet == [panic |-> FALSE, msg |-> "", ok |-> FALSE, bool |-> FALSE,
          str |-> <<>>, vec |-> <<>>, draws |-> <<>>,
          f64 |-> [kind |-> "fin", val |-> 0]]
NoArgs == [s |-> <<>>, ch |-> 0, length |-> 0, count |-> 0, pool_size |-> 0]

Init ==
    /\ pool = new
    /\ old = new
    /\ op = "new"
    /\ args = NoArgs
    /\ ret = NoRet

\* "...".parse::<Pool>(): an associated function, it has no receiver
ParseFrom(S) ==
    \E s \in S :
        /\ pool' = from_str(s).pool
        /\ old' = new
        /\ op' = "from_str"
        /\ args' = [NoArgs EXCEPT !.s = s]
        /\ ret' = [NoRet EXCEPT !.ok = from_str(s).ok]

Parse == ParseFrom(ParseStrings)

ParseShort == ParseFrom(Strings)

Insert ==
    \E ch \in Chars :
        /\ pool' = insert(pool, ch)
        /\ old' = pool
        /\ op' = "insert"
        /\ args' = [NoArgs EXCEPT !.ch = ch]
        /\ ret' = NoRet

Extend ==
    \E s \in Strings :
        /\ pool' = extend(pool, s)
        /\ old' = pool
        /\ op' = "extend"
        /\ args' = [NoArgs EXCEPT !.s = s]
        /\ ret' = NoRet

ExtendFromString ==
    \E s \in Strings :
        /\ pool' = extend_from_string(pool, s)
        /\ old' = pool
        /\ op' = "extend_from_string"
        /\ args' = [NoArgs EXCEPT !.s = s]
        /\ ret' = NoRet

SwapRemove ==
    \E ch \in Chars :
        /\ pool' = swap_remove(pool, ch).pool
        /\ old' = pool
        /\ op' = "swap_remove"
        /\ args' = [NoArgs EXCEPT !.ch = ch]
        /\ ret' = [NoRet EXCEPT !.bool = swap_remove(pool, ch).removed]

ShiftRemove ==
    \E ch \in Chars :
        /\ pool' = shift_remove(pool, ch).pool
        /\ old' = pool
        /\ op' = "shift_remove"
        /\ args' = [NoArgs EXCEPT !.ch = ch]
        /\ ret' = [NoRet EXCEPT !.bool = shift_remove(pool, ch).removed]

RemoveAll ==
    \E s \in Strings :
        /\ pool' = remove_all(pool, s)
        /\ old' = pool
        /\ op' = "remove_all"
        /\ args' = [NoArgs EXCEPT !.s = s]
        /\ ret' = NoRet

Sort ==
    /\ pool' = sort(pool)
    /\ old' = pool
    /\ op' = "sort"
    /\ args' = NoArgs
    /\ ret' = NoRet

GeneratePassword ==
    \E length \in 0..MaxPwLen :
        \E r \in generate_password(pool, length) :
            /\ pool' = pool
            /\ old' = pool
            /\ op' = "generate_password"
            /\ args' = [NoArgs EXCEPT !.length = length]
            /\ ret' = [NoRet EXCEPT !.panic = r.panic, !.msg = r.msg,
                                    !.str = r.val, !.draws = r.draws]

GenerateNPasswords ==
    \E length \in 0..MaxPwLen, count \in 0..MaxCount :
        /\ length * count <= MaxDraws
        /\ \E r \in generate_n_passwords(pool, length, count) :
               /\ pool' = pool
               /\ old' = pool
               /\ op' = "generate_n_passwords"
               /\ args' = [NoArgs EXCEPT !.length = length, !.count = count]
               /\ ret' = [NoRet EXCEPT !.panic = r.panic, !.msg = r.msg,
                                       !.vec = r.val, !.draws = r.draws]

CalculateEntropy ==
    \E length \in 0..MaxEntLen, pool_size \in PoolSizes :
        /\ pool' = pool
        /\ old' = pool
        /\ op' = "calculate_entropy"
        /\ args' = [NoArgs EXCEPT !.length = length, !.pool_size = pool_size]
        /\ ret' = [NoRet EXCEPT !.f64 = calculate_entropy(length, pool_size)]

Next ==
    \/ Parse
    \/ Insert
    \/ Extend
    \/ ExtendFromString
    \/ SwapRemove
    \/ ShiftRemove
    \/ RemoveAll
    \/ Sort

\* the operations of a Pool
Spec == Init /\ [][Next]_vars

NextSampler ==
    \/ ParseShort
    \/ GeneratePassword
    \/ GenerateNPasswords

\* the sampler applied to parsed pools
SpecSampler == Init /\ [][NextSampler]_vars

NextEntropy == CalculateEntropy

\* calculate_entropy applied to its inputs
SpecEntropy == Init /\ [][NextEntropy]_vars

\* ---- properties ----

\* C1: in every reachable pool no char sits at two different index positions,
\* and get(i) returns a char (the one at position i) exactly when i < len()
C1_UniqueAndIndexed ==
    /\ \A i, j \in 1..Len(pool) : pool[i] = pool[j] => i = j
    /\ \A i \in 0..(NumChars + 1) :
        /\ get(pool, i).some <=> i < len(pool)
        /\ i < len(pool) => get(pool, i) = Some(pool[i + 1])
        /\ i >= len(pool) => get(pool, i) = None

\* a full pool built by an insertion whose input repeated a char already held
C1_Witness ==
    /\ op \in {"extend", "extend_from_string"}
    /\ \E i \in 1..Len(args.s) : contains(old, args.s[i])
    /\ Len(pool) > Len(old)
    /\ Len(pool) >= 3

\* C2: on a nonempty pool generate_password returns, for every outcome of the
\* draws, exactly `length` chars that are all members of the pool (the empty
\* string for length 0), and leaves the pool unchanged
C2_PasswordLengthAndMembers ==
    (op = "generate_password" /\ ~is_empty(old)) =>
        /\ ~ret.panic
        /\ Len(ret.str) = args.length
        /\ \A i \in 1..Len(ret.str) : \E j \in 1..Len(old) : old[j] = ret.str[i]
        /\ args.length = 0 => ret.str = <<>>
        /\ pool = old

\* a password of two different chars, one of them the last char of the pool
C2_Witness ==
    /\ op = "generate_password"
    /\ ~ret.panic
    /\ Len(ret.str) >= 2
    /\ ret.str[1] # ret.str[2]
    /\ \E i \in 1..Len(ret.str) : ret.str[i] = old[Len(old)]

\* C3: on a nonempty pool generate_n_passwords returns exactly `count` strings
\* in generation order, each of exactly `length` chars that are members of the
\* pool; count 0 gives the empty sequence
C3_NPasswordsCountAndOrder ==
    (op = "generate_n_passwords" /\ ~is_empty(old)) =>
        /\ ~ret.panic
        /\ Len(ret.vec) = args.count
        /\ \A n \in 1..Len(ret.vec) :
            /\ Len(ret.vec[n]) = args.length
            /\ \A i \in 1..Len(ret.vec[n]) :
                /\ \E j \in 1..Len(old) : old[j] = ret.vec[n][i]
                /\ ret.vec[n][i] = ret.draws[(n - 1) * args.length + i]
        /\ Len(ret.draws) = args.count * args.length
        /\ args.count = 0 => ret.vec = <<>>

\* two different passwords returned by one call
C3_Witness ==
    /\ op = "generate_n_passwords"
    /\ ~ret.panic
    /\ Len(ret.vec) >= 2
    /\ Len(ret.vec[1]) >= 1
    /\ ret.vec[1] # ret.vec[2]

\* C4: on an empty pool generate_password and generate_n_passwords panic with
\* "Pool contains no elements!" for every length and count (0 included),
\* before any char is drawn and without returning anything
C4_EmptyPoolPanics ==
    (op \in {"generate_password", "generate_n_passwords"} /\ is_empty(old)) =>
        /\ ret.panic
        /\ ret.msg = "Pool contains no elements!"
        /\ ret.draws = <<>>
        /\ ret.str = <<>>
        /\ ret.vec = <<>>

\* generate_n_passwords of zero passwords of length zero on the empty pool
C4_Witness ==
    /\ op = "generate_n_passwords"
    /\ is_empty(old)
    /\ args.count = 0
    /\ args.length = 0
    /\ ret.panic

\* C5: parse(s) never fails and gives a pool with as many chars as s has
\* distinct chars, exactly those chars, in the order of first occurrence in s
C5_ParseDistinctFirstSeen ==
    op = "from_str" =>
        LET s == args.s
            first(c) == CHOOSE i \in 1..Len(s) : s[i] = c /\ \A k \in 1..(i - 1) : s[k] # c
        IN  /\ ret.ok
            /\ ~ret.panic
            /\ Len(pool) = Cardinality({s[i] : i \in 1..Len(s)})
            /\ {pool[i] : i \in 1..Len(pool)} = {s[i] : i \in 1..Len(s)}
            /\ \A i, j \in 1..Len(pool) : i < j => first(pool[i]) < first(pool[j])

\* a string whose first char is repeated after a different one
C5_Witness ==
    /\ op = "from_str"
    /\ Len(args.s) >= 3
    /\ args.s[1] # args.s[2]
    /\ args.s[3] = args.s[1]
    /\ Len(pool) = 2

\* C6: swap_remove(ch) of a char at index i returns true, shortens the pool by
\* one, puts the former last char at index i (when i was not the last index)
\* and leaves every other remaining char at its index; of an absent char it
\* returns false and changes nothing.  On "abcdefz", swap_remove('b') makes
\* get(1) = 'z' and get(6) = none
C6_SwapRemoveMovesLast ==
    /\ op = "swap_remove" =>
        LET n == Len(old)
        IN  /\ \A i \in 1..n : old[i] = args.ch =>
                /\ ret.bool
                /\ Len(pool) = n - 1
                /\ i < n => pool[i] = old[n]
                /\ \A j \in 1..(n - 1) : j # i => pool[j] = old[j]
            /\ (\A i \in 1..n : old[i] # args.ch) => (~ret.bool /\ pool = old)
    /\ LET r == swap_remove(from_str(<<97, 98, 99, 100, 101, 102, 122>>).pool, 98)
       IN  r.removed /\ get(r.pool, 1) = Some(122) /\ get(r.pool, 6) = None

\* the first of three chars is removed: the third takes its place
C6_Witness ==
    /\ op = "swap_remove"
    /\ ret.bool
    /\ Len(old) >= 3
    /\ old[1] = args.ch
    /\ pool[1] = old[Len(old)]

\* C7: shift_remove(ch) of a char at index i returns true, shortens the pool
\* by one, keeps the chars before i at their index and moves every char after
\* i down by one; of an absent char it returns false and changes nothing.  On
\* "abcdefz", shift_remove('b') makes get(1) = 'c' and get(6) = none
C7_ShiftRemoveKeepsOrder ==
    /\ op = "shift_remove" =>
        LET n == Len(old)
        IN  /\ \A i \in 1..n : old[i] = args.ch =>
                /\ ret.bool
                /\ Len(pool) = n - 1
                /\ \A j \in 1..(i - 1) : pool[j] = old[j]
                /\ \A j \in (i + 1)..n : pool[j - 1] = old[j]
            /\ (\A i \in 1..n : old[i] # args.ch) => (~ret.bool /\ pool = old)
    /\ LET r == shift_remove(from_str(<<97, 98, 99, 100, 101, 102, 122>>).pool, 98)
       IN  r.removed /\ get(r.pool, 1) = Some(99) /\ get(r.pool, 6) = None

\* the first of three chars is removed: the other two move down
C7_Witness ==
    /\ op = "shift_remove"
    /\ ret.bool
    /\ Len(old) >= 3
    /\ old[1] = args.ch
    /\ pool[1] = old[2]
    /\ pool[2] = old[3]

\* C8: remove_all(chars) right after parse(s) leaves a pool that compares
\* equal (Pool ==) to parse of s without the chars occurring in chars; chars
\* not in the pool are ignored; a removal fills the gap with the last char.
\* "abcde" after remove_all("ace") equals parse("bd")
C8_RemoveAllEqualsParseOfRest ==
    [][(op = "from_str" /\ op' = "remove_all") =>
        LET s == args.s
            chars == args'.s
            gone(c) == \E k \in 1..Len(chars) : chars[k] = c
            rest == SelectSeq(s, LAMBDA c : ~gone(c))
        IN  /\ pool_eq(pool', from_str(rest).pool)
            /\ (\A c \in Chars : gone(c) => ~contains(pool, c)) => pool' = pool
            /\ \A i \in 1..(Len(pool) - 1) :
                (Len(chars) = 1 /\ pool[i] = chars[1]) => pool'[i] = pool[Len(pool)]
            /\ LET p == remove_all(from_str(<<97, 98, 99, 100, 101>>).pool, <<97, 99, 101>>)
               IN  pool_eq(p, from_str(<<98, 100>>).pool)
    ]_vars

\* a removal that left the pool in another order than parsing the rest gives,
\* asked to remove the same char twice (the second time it is not present)
C8_Witness ==
    /\ op = "remove_all"
    /\ Len(pool) >= 2
    /\ Len(pool) < Len(old)
    /\ \E k, l \in 1..Len(args.s) : k < l /\ args.s[k] = args.s[l]
    /\ pool # from_str(SelectSeq(old, LAMBDA c : contains(pool, c))).pool

\* C9: insert(ch) never fails; of a char already present it leaves the pool
\* as it is; of an absent char it lengthens the pool by one, puts ch at the
\* last index and leaves every other char at its index
C9_InsertAppendsOrKeeps ==
    op = "insert" =>
        /\ ~ret.panic
        /\ (\E i \in 1..Len(old) : old[i] = args.ch) => pool = old
        /\ (\A i \in 1..Len(old) : old[i] # args.ch) =>
            /\ Len(pool) = Len(old) + 1
            /\ pool[Len(pool)] = args.ch
            /\ \A j \in 1..Len(old) : pool[j] = old[j]

\* insert of the char at index 0 of a pool of at least two chars
C9_Witness ==
    /\ op = "insert"
    /\ Len(old) >= 2
    /\ old[1] = args.ch
    /\ pool = old

\* C10 as stated: calculate_entropy is length * log2(pool_size), exactly 0 for
\* length 0 whatever the pool size (0 included), -infinity for length > 0 and
\* pool size 0, and 0 for pool size 1
C10_ZeroLengthAlwaysZero ==
    op = "calculate_entropy" =>
        /\ \A k \in 0..MaxLog2 :
            args.pool_size = 2 ^ k => ret.f64 = Fin(args.length * k)
        /\ args.length = 0 => ret.f64 = Fin(0)
        /\ (args.length > 0 /\ args.pool_size = 0) => ret.f64 = NegInf
        /\ args.pool_size = 1 => ret.f64 = Fin(0)

\* C10 amended: as above, but for length 0 the result is 0 only when
\* pool_size >= 1; for length 0 and pool_size 0 it is NaN (0 * -infinity)
C10_ZeroLengthZeroPoolIsNaN ==
    op = "calculate_entropy" =>
        /\ \A k \in 0..MaxLog2 :
            args.pool_size = 2 ^ k => ret.f64 = Fin(args.length * k)
        /\ (args.length = 0 /\ args.pool_size >= 1) => ret.f64 = Fin(0)
        /\ (args.length = 0 /\ args.pool_size = 0) => ret.f64 = NaN
        /\ (args.length > 0 /\ args.pool_size = 0) => ret.f64 = NegInf
        /\ args.pool_size = 1 => ret.f64 = Fin(0)

\* calculate_entropy(0, 0)
C10_Witness ==
    /\ op = "calculate_entropy"
    /\ args.length = 0
    /\ args.pool_size = 0
    /\ ret.f64.kind = "nan"
====
